---- MODULE Spec2Model ----
(***************************************************************************)
(* A model of poly-manifold: the Manifold contract, the Euclidean, Sphere  *)
(* and SPD geometries, numerical_gradient and GradientDescent::minimize.   *)
(*                                                                         *)
(* Scalars.  The source computes in f64.  The model computes on a fixed    *)
(* decimal grid: the integer x stands for the real x / One, and every      *)
(* product, quotient and root is rounded to the nearest grid value, as an  *)
(* f64 operation is rounded to the nearest float.  The grid is coarser     *)
(* than f64, so the source's thresholds are kept in their ORDER, not in    *)
(* their size:  1 ulp  <=  SeriesTol (1e-12)  <  Tol (1e-10)  <            *)
(* GradEps (1e-7)  <  One (1.0).  NaN and infinities are not modelled.     *)
(***************************************************************************)
EXTENDS Integers, Sequences, FiniteSets, TLC

\* ------------------------------------------------------------------ scalars

One == 10000

\* the 1e-10 thresholds of sphere.rs and spd.rs
Tol == 20

\* the 1e-12 early-stop threshold of the two SPD series
SeriesTol == 1

\* the finite-difference step 1e-7 that minimize passes to numerical_gradient
GradEps == 100

Abs(x) == IF x < 0 THEN -x ELSE x

Sgn(x) == IF x < 0 THEN -1 ELSE 1

Min2(a, b) == IF a < b THEN a ELSE b

Max2(a, b) == IF a < b THEN b ELSE a

\* a / d for integers, rounded to nearest (ties away from zero)
RoundDiv(a, d) == Sgn(a) * Sgn(d) * ((2 * Abs(a) + Abs(d)) \div (2 * Abs(d)))

\* the square root of One: the grid has two decimal digits per stage
Half == 100

\* the product of two grid values a, b >= 0, rounded to nearest: a * b / One,
\* split so that no intermediate value leaves the 32-bit range
MulSplit(a, b) ==
  (a \div One) * (b \div One) * One
  + (a \div One) * (b % One)
  + (a % One) * (b \div One)
  + ((a % One) * (b % One) + One \div 2) \div One

FMul(a, b) == Sgn(a) * Sgn(b) * MulSplit(Abs(a), Abs(b))

\* the quotient of two grid values a >= 0, b > 0, rounded to nearest:
\* a * One / b, by long division in two stages of Half
DivSplit(a, b) ==
  LET r1 == (a % b) * Half
      r2 == (r1 % b) * Half
  IN (a \div b) * One + (r1 \div b) * Half + (r2 + b \div 2) \div b

FDiv(a, b) == Sgn(a) * Sgn(b) * DivSplit(Abs(a), Abs(b))

\* r * r <= x * One, compared without computing either product
SqLeq(r, x) ==
  LET fl == (r \div One) * r + ((r % One) * r) \div One
  IN fl < x \/ (fl = x /\ ((r % One) * r) % One = 0)

\* the largest r in lo..hi with r * r <= x * One
RECURSIVE SqrtIn(_, _, _)
SqrtIn(x, lo, hi) ==
  IF lo >= hi THEN lo
  ELSE LET mid == (lo + hi + 1) \div 2
       IN IF SqLeq(mid, x) THEN SqrtIn(x, mid, hi) ELSE SqrtIn(x, lo, mid - 1)

\* the largest root the grid arithmetic can hold (20.0)
SqrtMax == 200000

\* f64::sqrt of a grid value x >= 0: sqrt(x / One) * One, exact on squares;
\* a large x is scaled down by Half * Half first, as a float's exponent is
RECURSIVE FSqrt(_)
FSqrt(x) ==
  IF x > 2 * Half * SqrtMax THEN Half * FSqrt(x \div (Half * Half))
  ELSE SqrtIn(x, 0, SqrtMax)

\* the tail of an alternating Taylor series: each term is the one before times
\* -x2 / (a (a - 1)); it stops when the term vanishes on the grid
RECURSIVE Taylor(_, _, _, _)
Taylor(x2, term, a, acc) ==
  IF term = 0 \/ a > 40 THEN acc
  ELSE LET next == - RoundDiv(FMul(term, x2), a * (a - 1))
       IN Taylor(x2, next, a + 2, acc + next)

\* the grid value of pi, the root of Sin nearest 3.14159
Pi == 31416

\* the argument reduced to [-pi, pi], as the library reduces it
Reduce(x) ==
  LET m == x % (2 * Pi)
  IN IF m > Pi THEN m - 2 * Pi ELSE m

\* f64::cos and f64::sin
Cos(x) == Taylor(FMul(Reduce(x), Reduce(x)), One, 2, One)

Sin(x) == Taylor(FMul(Reduce(x), Reduce(x)), Reduce(x), 3, Reduce(x))

\* f64::acos on [-One, One]: the angle in lo..hi whose cosine is c, by
\* bisection on the decreasing Cos  (Cos(lo) >= c >= Cos(hi))
RECURSIVE ACosIn(_, _, _)
ACosIn(c, lo, hi) ==
  IF hi - lo <= 1
  THEN IF Abs(Cos(lo) - c) <= Abs(Cos(hi) - c) THEN lo ELSE hi
  ELSE LET mid == (lo + hi) \div 2
       IN IF Cos(mid) >= c THEN ACosIn(c, mid, hi) ELSE ACosIn(c, lo, mid)

ACos(c) == IF c >= One THEN 0 ELSE IF c <= -One THEN Pi ELSE ACosIn(c, 0, Pi)

\* f64::clamp
Clamp(x, lo, hi) == IF x < lo THEN lo ELSE IF x > hi THEN hi ELSE x

\* ------------------------------------------------------------------ vectors

\* collect(): the sequence with every element computed once
Vec(s) == <<>> \o s

\* iter().sum() of a sequence of scalars
RECURSIVE SumSeq(_)
SumSeq(s) == IF s = <<>> THEN 0 ELSE Head(s) + SumSeq(Tail(s))

\* a.iter().zip(b.iter()).map(|(x, y)| x * y).sum(): zip stops at the shorter
ZipDot(a, b) == SumSeq(Vec([i \in 1..Min2(Len(a), Len(b)) |-> FMul(a[i], b[i])]))

\* vec![0.0; n]
Zeros(n) == Vec([i \in 1..n |-> 0])

\* ------------------------------------------------------------------ results

NoError == [tag |-> "none", expected |-> 0, got |-> 0, reason |-> ""]

DimensionMismatch(e, g) ==
  [tag |-> "DimensionMismatch", expected |-> e, got |-> g, reason |-> ""]

PointNotOnManifold(r) ==
  [tag |-> "PointNotOnManifold", expected |-> 0, got |-> 0, reason |-> r]

InvalidTangentVector(r) ==
  [tag |-> "InvalidTangentVector", expected |-> 0, got |-> 0, reason |-> r]

NumericalError(r) ==
  [tag |-> "NumericalError", expected |-> 0, got |-> 0, reason |-> r]

LinearAlgebraError(r) ==
  [tag |-> "LinearAlgebraError", expected |-> 0, got |-> 0, reason |-> r]

\* ConvergenceError { iterations }
ConvergenceError(n) ==
  [tag |-> "ConvergenceError", expected |-> 0, got |-> n, reason |-> ""]

InvalidParameter(r) ==
  [tag |-> "InvalidParameter", expected |-> 0, got |-> 0, reason |-> r]

\* the variants of ManifoldError
ManifoldErrorTags ==
  {"DimensionMismatch", "PointNotOnManifold", "InvalidTangentVector",
   "NumericalError", "ConvergenceError", "InvalidParameter", "LinearAlgebraError"}

\* Result<T>: Ok(value) or Err(error); a call that aborts (a failed assert_eq!,
\* an index out of bounds) returns neither, which the model writes Panic
Ok(v) == [kind |-> "Ok", val |-> v, err |-> NoError]

Err(e) == [kind |-> "Err", val |-> <<>>, err |-> e]

Panic(why) ==
  [kind |-> "Panic", val |-> <<>>,
   err |-> [tag |-> "panic", expected |-> 0, got |-> 0, reason |-> why]]

IsOk(r) == r.kind = "Ok"

\* TangentVector::dim
TangentDim(t) == Len(t)

\* DVector::dot, which asserts that both vectors have the same shape
VecDot(a, b) ==
  IF Len(a) # Len(b) THEN Panic("Dot product dimensions mismatch")
  ELSE Ok(ZipDot(a, b))

\* TangentVector::norm: sqrt of the dot product with itself
TangentNorm(t) == FSqrt(ZipDot(t, t))

\* impl Mul<T> for TangentVector: every component times the scalar
TangentScale(t, c) == Vec([i \in 1..Len(t) |-> FMul(t[i], c)])

\* ---------------------------------------------------------------- Euclidean
\* A manifold value is [kind, dimension]; dimension is the struct's only field.

Euclidean(n) == [kind |-> "Euclidean", dimension |-> n]

Euclidean_check_point(M, point) ==
  IF Len(point) # M.dimension
  THEN Err(DimensionMismatch(M.dimension, Len(point)))
  ELSE Ok(<<>>)

Euclidean_check_tangent_vector(M, point, tangent) ==
  LET c == Euclidean_check_point(M, point)
  IN IF ~IsOk(c) THEN c
     ELSE IF TangentDim(tangent) # M.dimension
     THEN Err(DimensionMismatch(M.dimension, TangentDim(tangent)))
     ELSE Ok(<<>>)

Euclidean_project_to_manifold(M, point) == Ok(point)

Euclidean_project_to_tangent_space(M, point, vector) == Ok(vector)

Euclidean_exp(M, point, tangent) ==
  LET c == Euclidean_check_tangent_vector(M, point, tangent)
  IN IF ~IsOk(c) THEN c
     ELSE Ok(Vec([i \in 1..M.dimension |-> point[i] + tangent[i]]))

\* Euclidean_log with the difference reversed: point - other
Euclidean_log_Reversed(M, point, other) ==
  LET c1 == Euclidean_check_point(M, point)
      c2 == Euclidean_check_point(M, other)
  IN IF ~IsOk(c1) THEN c1
     ELSE IF ~IsOk(c2) THEN c2
     ELSE Ok(Vec([i \in 1..M.dimension |-> point[i] - other[i]]))

Euclidean_log(M, point, other) ==
  LET c1 == Euclidean_check_point(M, point)
      c2 == Euclidean_check_point(M, other)
  IN IF ~IsOk(c1) THEN c1
     ELSE IF ~IsOk(c2) THEN c2
     ELSE Ok(Vec([i \in 1..M.dimension |-> other[i] - point[i]]))

Euclidean_inner_product(M, point, v1, v2) == VecDot(v1, v2)

\* ------------------------------------------------------------------- Sphere

Sphere(n) == [kind |-> "Sphere", dimension |-> n]

embedding_dim(M) == M.dimension + 1

Sphere_check_point(M, point) ==
  IF Len(point) # embedding_dim(M)
  THEN Err(DimensionMismatch(embedding_dim(M), Len(point)))
  ELSE LET norm_sq == ZipDot(point, point)
       IN IF Abs(norm_sq - One) > Tol
          THEN Err(PointNotOnManifold("Point norm is not 1.0"))
          ELSE Ok(<<>>)

Sphere_check_tangent_vector(M, point, tangent) ==
  LET c == Sphere_check_point(M, point)
  IN IF ~IsOk(c) THEN c
     ELSE IF TangentDim(tangent) # embedding_dim(M)
     THEN Err(DimensionMismatch(embedding_dim(M), TangentDim(tangent)))
     ELSE LET dot_product == ZipDot(point, tangent)
          IN IF Abs(dot_product) > Tol
             THEN Err(InvalidTangentVector("Tangent vector not orthogonal to point"))
             ELSE Ok(<<>>)

Sphere_project_to_manifold(M, point) ==
  LET norm == FSqrt(ZipDot(point, point))
  IN IF norm < Tol
     THEN Err(NumericalError("Cannot project zero vector to sphere"))
     ELSE Ok(Vec([i \in 1..Len(point) |-> FDiv(point[i], norm)]))

\* projected[i] for i in 0..embedding_dim indexes the clone of vector and
\* aborts when vector is shorter than the embedding
Sphere_project_to_tangent_space(M, point, vector) ==
  LET c == Sphere_check_point(M, point)
  IN IF ~IsOk(c) THEN c
     ELSE LET dot_product == ZipDot(point, vector)
          IN IF Len(vector) < embedding_dim(M)
             THEN Panic("index out of bounds")
             ELSE Ok(Vec([i \in 1..Len(vector) |->
                        IF i <= embedding_dim(M)
                        THEN vector[i] - FMul(dot_product, point[i])
                        ELSE vector[i]]))

Sphere_exp(M, point, tangent) ==
  LET c == Sphere_check_tangent_vector(M, point, tangent)
  IN IF ~IsOk(c) THEN c
     ELSE LET tangent_norm == TangentNorm(tangent)
          IN IF tangent_norm < Tol THEN Ok(point)
             ELSE Ok(Vec([i \in 1..embedding_dim(M) |->
                        FMul(point[i], Cos(tangent_norm))
                        + FDiv(FMul(tangent[i], Sin(tangent_norm)), tangent_norm)]))

Sphere_log(M, point, other) ==
  LET c1 == Sphere_check_point(M, point)
      c2 == Sphere_check_point(M, other)
  IN IF ~IsOk(c1) THEN c1
     ELSE IF ~IsOk(c2) THEN c2
     ELSE LET dot_product == Clamp(ZipDot(point, other), -One, One)
              theta == ACos(dot_product)
              sin_theta == Sin(theta)
          IN IF Abs(theta) < Tol THEN Ok(Zeros(embedding_dim(M)))
             ELSE IF Abs(sin_theta) < Tol
             THEN Err(NumericalError("Points are antipodal, logarithm map is not unique"))
             ELSE Ok(Vec([i \in 1..embedding_dim(M) |->
                        FDiv(FMul(other[i] - FMul(point[i], dot_product), theta),
                             sin_theta)]))

Sphere_inner_product(M, point, v1, v2) == VecDot(v1, v2)

\* ----------------------------------------------------------------- matrices
\* A DMatrix is a sequence of rows; the nalgebra operations are modelled by
\* their textbook definitions on the grid.

Identity(n) == Vec([i \in 1..n |-> Vec([j \in 1..n |-> IF i = j THEN One ELSE 0])])

ZeroMatrix(n) == Vec([i \in 1..n |-> Vec([j \in 1..n |-> 0])])

Transpose(A) == Vec([i \in 1..Len(A) |-> Vec([j \in 1..Len(A) |-> A[j][i]])])

MatAdd(A, B) == Vec([i \in 1..Len(A) |-> Vec([j \in 1..Len(A) |-> A[i][j] + B[i][j]])])

MatSub(A, B) == Vec([i \in 1..Len(A) |-> Vec([j \in 1..Len(A) |-> A[i][j] - B[i][j]])])

MatMul(A, B) ==
  Vec([i \in 1..Len(A) |-> Vec([j \in 1..Len(A) |->
     SumSeq(Vec([k \in 1..Len(A) |-> FMul(A[i][k], B[k][j])]))])])

\* matrix * scalar
MatScale(A, c) == Vec([i \in 1..Len(A) |-> Vec([j \in 1..Len(A) |-> FMul(A[i][j], c)])])

\* matrix / (k as f64) for an integer k
MatDivInt(A, k) == Vec([i \in 1..Len(A) |-> Vec([j \in 1..Len(A) |-> RoundDiv(A[i][j], k)])])

Trace(A) == SumSeq(Vec([i \in 1..Len(A) |-> A[i][i]]))

\* term.iter().all(|&x| x.abs() < 1e-12)
AllBelow(A, t) == \A i \in 1..Len(A) : \A j \in 1..Len(A) : Abs(A[i][j]) < t

\* DMatrix::cholesky: column by column, reading the lower triangle only;
\* fails at the first pivot that is not positive.  L holds the columns < j.
RECURSIVE CholFrom(_, _, _)
CholFrom(A, j, L) ==
  IF j > Len(A) THEN [ok |-> TRUE, l |-> L]
  ELSE LET d == A[j][j] - SumSeq(Vec([k \in 1..(j - 1) |-> FMul(L[j][k], L[j][k])]))
       IN IF d <= 0 THEN [ok |-> FALSE, l |-> L]
          ELSE LET r == FSqrt(d)
                   below(i) ==
                     FDiv(A[i][j]
                          - SumSeq(Vec([k \in 1..(j - 1) |-> FMul(L[i][k], L[j][k])])), r)
               IN CholFrom(A, j + 1,
                    Vec([i \in 1..Len(A) |-> Vec([c \in 1..Len(A) |->
                       IF c # j THEN L[i][c]
                       ELSE IF i = j THEN r
                       ELSE IF i > j THEN below(i)
                       ELSE 0])]))

Cholesky(A) == CholFrom(A, 1, ZeroMatrix(Len(A)))

\* DMatrix::try_inverse, which uses closed forms up to dimension 3; the model
\* covers dimensions 1 and 2
TryInverse(A) ==
  CASE Len(A) = 1 ->
         IF A[1][1] = 0 THEN [ok |-> FALSE, inv |-> A]
         ELSE [ok |-> TRUE, inv |-> << <<FDiv(One, A[1][1])>> >>]
    [] Len(A) = 2 ->
         LET det == FMul(A[1][1], A[2][2]) - FMul(A[2][1], A[1][2])
         IN IF det = 0 THEN [ok |-> FALSE, inv |-> A]
            ELSE [ok |-> TRUE,
                  inv |-> << <<FDiv(A[2][2], det), FDiv(-A[1][2], det)>>,
                             <<FDiv(-A[2][1], det), FDiv(A[1][1], det)>> >>]

\* the series caps: for k in 1..20 and for k in 1..50
ExpCap == 20

LogCap == 50

\* one iteration of matrix_exponential's loop; stop is the break
ExpStep(mat, k, st) ==
  LET t == MatDivInt(MatMul(st.term, mat), k)
  IN [term |-> t, result |-> MatAdd(st.result, t), stop |-> AllBelow(t, SeriesTol)]

\* the loop from iteration k on, st being the state the iterations before left
RECURSIVE ExpSeries(_, _, _)
ExpSeries(mat, k, st) ==
  IF k >= ExpCap \/ st.stop THEN st.result
  ELSE ExpSeries(mat, k + 1, ExpStep(mat, k, st))

matrix_exponential(mat) ==
  ExpSeries(mat, 1,
    [term |-> Identity(Len(mat)), result |-> Identity(Len(mat)), stop |-> FALSE])

\* one iteration of matrix_logarithm's loop; stop is the break
LogStep(a, k, st) ==
  LET sign == IF k % 2 = 1 THEN One ELSE -One
      t == MatMul(st.term, a)
  IN [term |-> t,
      result |-> MatAdd(st.result, MatScale(st.term, RoundDiv(sign, k))),
      stop |-> AllBelow(t, SeriesTol)]

RECURSIVE LogSeries(_, _, _)
LogSeries(a, k, st) ==
  IF k >= LogCap \/ st.stop THEN st.result
  ELSE LogSeries(a, k + 1, LogStep(a, k, st))

matrix_logarithm(mat) ==
  LET a == MatSub(mat, Identity(Len(mat)))
  IN Ok(LogSeries(a, 1,
          [term |-> a, result |-> ZeroMatrix(Len(mat)), stop |-> FALSE]))

\* ---------------------------------------------------------------------- SPD

SPD(n) == [kind |-> "SPD", dimension |-> n]

\* assert_eq!(vec.len(), dimension * dimension) fails
vec_to_matrix_aborts(M, vec) == Len(vec) # M.dimension * M.dimension

\* DMatrix::from_row_slice: row-major
vec_to_matrix(M, vec) ==
  Vec([i \in 1..M.dimension |-> Vec([j \in 1..M.dimension |->
     vec[(i - 1) * M.dimension + j]])])

\* mat.as_slice(): nalgebra stores column-major
matrix_to_vec(M, mat) ==
  Vec([k \in 1..(Len(mat) * Len(mat)) |->
     mat[((k - 1) % Len(mat)) + 1][((k - 1) \div Len(mat)) + 1]])

is_symmetric(M, mat) ==
  \A i \in 1..M.dimension : \A j \in (i + 1)..M.dimension :
     ~(Abs(mat[i][j] - mat[j][i]) > Tol)

is_positive_definite(M, mat) == Cholesky(mat).ok

\* (mat + mat^T) * 0.5
Symmetrize(mat) == MatScale(MatAdd(mat, Transpose(mat)), One \div 2)

\* SPD_check_point with the two membership tests in the other order
SPD_check_point_DefiniteFirst(M, point) ==
  IF Len(point) # M.dimension * M.dimension
  THEN Err(DimensionMismatch(M.dimension * M.dimension, Len(point)))
  ELSE LET mat == vec_to_matrix(M, point)
       IN IF ~is_positive_definite(M, mat)
          THEN Err(PointNotOnManifold("Matrix is not positive definite"))
          ELSE IF ~is_symmetric(M, mat)
          THEN Err(PointNotOnManifold("Matrix is not symmetric"))
          ELSE Ok(<<>>)

SPD_check_point(M, point) ==
  IF Len(point) # M.dimension * M.dimension
  THEN Err(DimensionMismatch(M.dimension * M.dimension, Len(point)))
  ELSE LET mat == vec_to_matrix(M, point)
       IN IF ~is_symmetric(M, mat)
          THEN Err(PointNotOnManifold("Matrix is not symmetric"))
          ELSE IF ~is_positive_definite(M, mat)
          THEN Err(PointNotOnManifold("Matrix is not positive definite"))
          ELSE Ok(<<>>)

SPD_check_tangent_vector(M, point, tangent) ==
  LET c == SPD_check_point(M, point)
  IN IF ~IsOk(c) THEN c
     ELSE IF TangentDim(tangent) # M.dimension * M.dimension
     THEN Err(DimensionMismatch(M.dimension * M.dimension, TangentDim(tangent)))
     ELSE IF ~is_symmetric(M, vec_to_matrix(M, tangent))
     THEN Err(InvalidTangentVector("Tangent vector matrix is not symmetric"))
     ELSE Ok(<<>>)

SPD_project_to_manifold(M, point) ==
  IF vec_to_matrix_aborts(M, point) THEN Panic("assertion failed in vec_to_matrix")
  ELSE LET sym == Symmetrize(vec_to_matrix(M, point))
           mat == Vec([i \in 1..M.dimension |-> Vec([j \in 1..M.dimension |->
                     IF i = j THEN Max2(sym[i][i], Tol) ELSE sym[i][j]])])
       IN Ok(matrix_to_vec(M, mat))

SPD_project_to_tangent_space(M, point, vector) ==
  IF vec_to_matrix_aborts(M, vector) THEN Panic("assertion failed in vec_to_matrix")
  ELSE Ok(matrix_to_vec(M, Symmetrize(vec_to_matrix(M, vector))))

SPD_exp(M, point, tangent) ==
  LET c == SPD_check_tangent_vector(M, point, tangent)
  IN IF ~IsOk(c) THEN c
     ELSE LET p_mat == vec_to_matrix(M, point)
              v_mat == vec_to_matrix(M, tangent)
              chol == Cholesky(p_mat)
              l == chol.l
              l_inv == TryInverse(l)
          IN IF ~chol.ok
             THEN Err(LinearAlgebraError("Cholesky decomposition failed"))
             ELSE IF ~l_inv.ok
             THEN Err(LinearAlgebraError("Matrix inversion failed"))
             ELSE LET w == MatMul(MatMul(l_inv.inv, v_mat), Transpose(l_inv.inv))
                      w_exp == matrix_exponential(w)
                      result == MatMul(MatMul(l, w_exp), Transpose(l))
                  IN Ok(matrix_to_vec(M, result))

SPD_log(M, point, other) ==
  LET c1 == SPD_check_point(M, point)
      c2 == SPD_check_point(M, other)
  IN IF ~IsOk(c1) THEN c1
     ELSE IF ~IsOk(c2) THEN c2
     ELSE LET p_mat == vec_to_matrix(M, point)
              q_mat == vec_to_matrix(M, other)
              chol_p == Cholesky(p_mat)
              l_p == chol_p.l
              l_p_inv == TryInverse(l_p)
          IN IF ~chol_p.ok
             THEN Err(LinearAlgebraError("Cholesky decomposition failed for point"))
             ELSE IF ~l_p_inv.ok
             THEN Err(LinearAlgebraError("Matrix inversion failed"))
             ELSE LET w == MatMul(MatMul(l_p_inv.inv, q_mat), Transpose(l_p_inv.inv))
                      w_log == matrix_logarithm(w)
                  IN IF ~IsOk(w_log) THEN w_log
                     ELSE Ok(matrix_to_vec(M,
                            MatMul(MatMul(l_p, w_log.val), Transpose(l_p))))

SPD_inner_product(M, point, v1, v2) ==
  IF vec_to_matrix_aborts(M, point) THEN Panic("assertion failed in vec_to_matrix")
  ELSE LET p_inv == TryInverse(vec_to_matrix(M, point))
       IN IF ~p_inv.ok THEN Err(LinearAlgebraError("Matrix inversion failed"))
          ELSE IF vec_to_matrix_aborts(M, v1) \/ vec_to_matrix_aborts(M, v2)
          THEN Panic("assertion failed in vec_to_matrix")
          ELSE Ok(Trace(MatMul(MatMul(MatMul(p_inv.inv, vec_to_matrix(M, v1)),
                                      p_inv.inv),
                               vec_to_matrix(M, v2))))

\* ------------------------------------------------------- the Manifold trait
\* Static dispatch on the implementing type.

\* dim returning the length of a point's slice instead of the intrinsic
\* dimension
dim_Ambient(M) ==
  CASE M.kind = "Euclidean" -> M.dimension
    [] M.kind = "Sphere" -> M.dimension + 1
    [] M.kind = "SPD" -> M.dimension * M.dimension

dim(M) ==
  CASE M.kind = "Euclidean" -> M.dimension
    [] M.kind = "Sphere" -> M.dimension
    [] M.kind = "SPD" -> (M.dimension * (M.dimension + 1)) \div 2

check_point(M, point) ==
  CASE M.kind = "Euclidean" -> Euclidean_check_point(M, point)
    [] M.kind = "Sphere" -> Sphere_check_point(M, point)
    [] M.kind = "SPD" -> SPD_check_point(M, point)

check_tangent_vector(M, point, tangent) ==
  CASE M.kind = "Euclidean" -> Euclidean_check_tangent_vector(M, point, tangent)
    [] M.kind = "Sphere" -> Sphere_check_tangent_vector(M, point, tangent)
    [] M.kind = "SPD" -> SPD_check_tangent_vector(M, point, tangent)

project_to_manifold(M, point) ==
  CASE M.kind = "Euclidean" -> Euclidean_project_to_manifold(M, point)
    [] M.kind = "Sphere" -> Sphere_project_to_manifold(M, point)
    [] M.kind = "SPD" -> SPD_project_to_manifold(M, point)

project_to_tangent_space(M, point, vector) ==
  CASE M.kind = "Euclidean" -> Euclidean_project_to_tangent_space(M, point, vector)
    [] M.kind = "Sphere" -> Sphere_project_to_tangent_space(M, point, vector)
    [] M.kind = "SPD" -> SPD_project_to_tangent_space(M, point, vector)

exp(M, point, tangent) ==
  CASE M.kind = "Euclidean" -> Euclidean_exp(M, point, tangent)
    [] M.kind = "Sphere" -> Sphere_exp(M, point, tangent)
    [] M.kind = "SPD" -> SPD_exp(M, point, tangent)

log(M, point, other) ==
  CASE M.kind = "Euclidean" -> Euclidean_log(M, point, other)
    [] M.kind = "Sphere" -> Sphere_log(M, point, other)
    [] M.kind = "SPD" -> SPD_log(M, point, other)

inner_product(M, point, v1, v2) ==
  CASE M.kind = "Euclidean" -> Euclidean_inner_product(M, point, v1, v2)
    [] M.kind = "Sphere" -> Sphere_inner_product(M, point, v1, v2)
    [] M.kind = "SPD" -> SPD_inner_product(M, point, v1, v2)

\* the provided methods of the trait

\* f64::sqrt of a negative number
NaN == [nan |-> TRUE]

norm(M, point, v) ==
  LET ip == inner_product(M, point, v, v)
  IN IF ~IsOk(ip) THEN ip
     ELSE IF ip.val < 0 THEN Ok(NaN)
     ELSE Ok(FSqrt(ip.val))

retraction(M, point, tangent) == exp(M, point, tangent)

distance(M, point1, point2) ==
  LET log_vec == log(M, point1, point2)
  IN IF ~IsOk(log_vec) THEN log_vec ELSE norm(M, point1, log_vec.val)

\* geodesic without the scaling: tangent is used whatever t is
geodesic_Unscaled(M, point, tangent, t) ==
  exp(M, point, tangent)

geodesic(M, point, tangent, t) == exp(M, point, TangentScale(tangent, t))

parallel_transport(M, point, tangent, direction) ==
  LET new_point == exp(M, point, direction)
  IN IF ~IsOk(new_point) THEN new_point
     ELSE project_to_tangent_space(M, new_point.val, tangent)

\* ------------------------------------------------------- the cost function
\* minimize takes any F: Fn(&[f64]) -> f64.  The model draws it from a family
\* of closures: the squared distance to a target (the examples' cost), a linear
\* form, and a constant.

SqDist(target) == [kind |-> "sqdist", data |-> target]

Linear(coef) == [kind |-> "linear", data |-> coef]

Const(c) == [kind |-> "const", data |-> <<c>>]

\* cost_function(p)
Cost(f, p) ==
  CASE f.kind = "sqdist" ->
         SumSeq(Vec([i \in 1..Len(f.data) |->
                  FMul(p[i] - f.data[i], p[i] - f.data[i])]))
    [] f.kind = "linear" ->
         SumSeq(Vec([i \in 1..Len(f.data) |-> FMul(f.data[i], p[i])]))
    [] f.kind = "const" -> f.data[1]

\* ------------------------------------------------------------------ bounds

\* max_iterations ranges over 0..MaxIter
MaxIter == 3

\* ------------------------------------------------------------------- inputs

Manifolds == {Euclidean(2), Sphere(2), SPD(2)}

\* initial points: members of the manifold, members at the edge of the
\* membership tolerance, and non-members (wrong length, off the manifold)
InitialPoints(M) ==
  CASE M.kind = "Euclidean" ->
         {<<5 * One, 5 * One>>, <<One, 2 * One>>, <<One>>}
    [] M.kind = "Sphere" ->
         {<<One, 0, 0>>, <<0, 6000, 8000>>, <<One + 10, 0, 0>>,
          <<5000, 5000, 5000>>, <<One, 0>>}
    [] M.kind = "SPD" ->
         {<<One, 0, 0, One>>, <<2 * One, One, One, 2 * One>>,
          <<One, 5000, 3000, One>>, <<One, 2 * One, 2 * One, One>>, <<One>>}

CostFunctions(M) ==
  CASE M.kind = "Euclidean" ->
         {SqDist(<<One, 2 * One>>), Linear(<<One, -One>>), Const(0)}
    [] M.kind = "Sphere" ->
         {SqDist(<<5000, 5000, 5000>>), Linear(<<8 * One, One, 0>>), Const(0)}
    [] M.kind = "SPD" ->
         {SqDist(<<2 * One, 0, 0, 2 * One>>), Linear(<<8 * One, 0, 0, 8 * One>>),
          Const(0)}

\* learning rates; the grid holds magnitudes below 2^31 / One, and the one
\* configuration whose iterates leave that range is not drawn
LearningRates(M, f) ==
  IF M.kind = "SPD" /\ f.kind = "linear" THEN {One \div 10, One}
  ELSE {One \div 10, One \div 2, One}

Tolerances == {0, One \div 200}

\* --------------------------------------------------------------- the state

VARIABLES
  manifold,          \* minimize's arguments and the optimizer's fields
  initial_point,
  cost_function,
  learning_rate,
  max_iterations,
  tolerance,
  pc,                \* where minimize is
  point,             \* let mut point
  prev_cost,         \* let mut prev_cost
  current_cost,
  iter,              \* the loop variable _iter
  f0,                \* numerical_gradient's locals
  gi,
  gradient,
  grad_tangent,      \* let gradient (the projected gradient)
  descent_direction,
  result,            \* what minimize returned
  trace,             \* history: the calls made so far, in order
  visited,           \* history: the initial point and every point exp returned
  last_ret,          \* history: what the latest fallible call returned
  call               \* a single manifold operation applied to drawn arguments

optVars ==
  <<manifold, initial_point, cost_function, learning_rate, max_iterations,
    tolerance, pc, point, prev_cost, current_cost, iter, f0, gi, gradient,
    grad_tangent, descent_direction, result, trace, visited, last_ret>>

vars == <<optVars, call>>

inputs ==
  <<manifold, initial_point, cost_function, learning_rate, max_iterations,
    tolerance>>

NoResult == [kind |-> "none", val |-> <<>>, err |-> NoError]

NoCall == [op |-> "none"]

\* GradientDescent::new with any configuration, then minimize is entered
Init ==
  /\ manifold \in Manifolds
  /\ initial_point \in InitialPoints(manifold)
  /\ cost_function \in CostFunctions(manifold)
  /\ learning_rate \in LearningRates(manifold, cost_function)
  /\ max_iterations \in 0..MaxIter
  /\ tolerance \in Tolerances
  /\ pc = "start"
  /\ point = <<>>
  /\ prev_cost = 0
  /\ current_cost = 0
  /\ iter = 0
  /\ f0 = 0
  /\ gi = 0
  /\ gradient = <<>>
  /\ grad_tangent = <<>>
  /\ descent_direction = <<>>
  /\ result = NoResult
  /\ trace = <<>>
  /\ visited = <<>>
  /\ last_ret = NoResult
  /\ call = NoCall

\* minimize returns r (an Err through `?`, or the final Ok)
Return(r) ==
  /\ result' = r
  /\ pc' = "done"

\* CheckInitialPoint with the `?` dropped: the check's result is ignored
CheckInitialPoint_Ignored ==
  /\ pc = "start"
  /\ trace' = Append(trace, "check_point")
  /\ last_ret' = check_point(manifold, initial_point)
  /\ pc' = "init"
  /\ UNCHANGED <<inputs, point, prev_cost, current_cost, iter, f0, gi, gradient,
                 grad_tangent, descent_direction, result, visited, call>>

\* manifold.check_point(initial_point)?
CheckInitialPoint ==
  /\ pc = "start"
  /\ trace' = Append(trace, "check_point")
  /\ LET c == check_point(manifold, initial_point)
     IN /\ last_ret' = c
        /\ IF IsOk(c) THEN pc' = "init" /\ UNCHANGED result ELSE Return(c)
  /\ UNCHANGED <<inputs, point, prev_cost, current_cost, iter, f0, gi, gradient,
                 grad_tangent, descent_direction, visited, call>>

\* let mut point = initial_point.to_vec(); let mut prev_cost = cost_function(&point)
InitialCost ==
  /\ pc = "init"
  /\ point' = initial_point
  /\ prev_cost' = Cost(cost_function, initial_point)
  /\ trace' = Append(trace, "cost")
  /\ visited' = <<initial_point>>
  /\ pc' = "loop"
  /\ UNCHANGED <<inputs, current_cost, iter, f0, gi, gradient, grad_tangent,
                 descent_direction, result, last_ret, call>>

\* LoopHead as `for _iter in 0..=self.max_iterations`: one iteration too many
LoopHead_Inclusive ==
  /\ pc = "loop"
  /\ pc' = IF iter <= max_iterations THEN "grad_check" ELSE "return"
  /\ UNCHANGED <<inputs, point, prev_cost, current_cost, iter, f0, gi, gradient,
                 grad_tangent, descent_direction, result, trace, visited, last_ret,
                 call>>

\* for _iter in 0..self.max_iterations: the next iteration, or the loop's end
LoopHead ==
  /\ pc = "loop"
  /\ pc' = IF iter < max_iterations THEN "grad_check" ELSE "return"
  /\ UNCHANGED <<inputs, point, prev_cost, current_cost, iter, f0, gi, gradient,
                 grad_tangent, descent_direction, result, trace, visited, last_ret, call>>

\* numerical_gradient: manifold.check_point(point)?; let mut gradient = vec![0.0; n]
GradCheckPoint ==
  /\ pc = "grad_check"
  /\ trace' = trace \o <<"numerical_gradient", "check_point">>
  /\ LET c == check_point(manifold, point)
     IN /\ last_ret' = c
        /\ IF IsOk(c)
           THEN /\ gradient' = Zeros(Len(point))
                /\ pc' = "grad_f0"
                /\ UNCHANGED result
           ELSE /\ Return(c)
                /\ UNCHANGED gradient
  /\ UNCHANGED <<inputs, point, prev_cost, current_cost, iter, f0, gi,
                 grad_tangent, descent_direction, visited, call>>

\* numerical_gradient: let f0 = cost_function(point)
GradBaseCost ==
  /\ pc = "grad_f0"
  /\ f0' = Cost(cost_function, point)
  /\ gi' = 0
  /\ trace' = Append(trace, "cost")
  /\ pc' = "grad_loop"
  /\ UNCHANGED <<inputs, point, prev_cost, current_cost, iter, gradient,
                 grad_tangent, descent_direction, result, visited, last_ret, call>>

\* GradCoordinate evaluating the base cost again in every pass
GradCoordinate_Reevaluates ==
  /\ pc = "grad_loop"
  /\ gi < Len(point)
  /\ LET point_plus == [point EXCEPT ![gi + 1] = @ + GradEps]
         f_plus == Cost(cost_function, point_plus)
     IN gradient' =
          [gradient EXCEPT ![gi + 1] = FDiv(f_plus - Cost(cost_function, point), GradEps)]
  /\ gi' = gi + 1
  /\ trace' = trace \o <<"cost", "cost">>
  /\ UNCHANGED <<inputs, pc, point, prev_cost, current_cost, iter, f0,
                 grad_tangent, descent_direction, result, visited, last_ret, call>>

\* GradCoordinate perturbing one buffer again and again instead of a fresh
\* copy of point: pass i sees the coordinates before i perturbed as well
GradCoordinate_Accumulates ==
  /\ pc = "grad_loop"
  /\ gi < Len(point)
  /\ LET point_plus ==
           Vec([j \in 1..Len(point) |->
                  IF j <= gi + 1 THEN point[j] + GradEps ELSE point[j]])
         f_plus == Cost(cost_function, point_plus)
     IN gradient' = [gradient EXCEPT ![gi + 1] = FDiv(f_plus - f0, GradEps)]
  /\ gi' = gi + 1
  /\ trace' = Append(trace, "cost")
  /\ UNCHANGED <<inputs, pc, point, prev_cost, current_cost, iter, f0,
                 grad_tangent, descent_direction, result, visited, last_ret, call>>

\* numerical_gradient: one pass of for i in 0..n
GradCoordinate ==
  /\ pc = "grad_loop"
  /\ gi < Len(point)
  /\ LET point_plus == [point EXCEPT ![gi + 1] = @ + GradEps]
         f_plus == Cost(cost_function, point_plus)
     IN gradient' = [gradient EXCEPT ![gi + 1] = FDiv(f_plus - f0, GradEps)]
  /\ gi' = gi + 1
  /\ trace' = Append(trace, "cost")
  /\ UNCHANGED <<inputs, pc, point, prev_cost, current_cost, iter, f0,
                 grad_tangent, descent_direction, result, visited, last_ret, call>>

\* numerical_gradient: manifold.project_to_tangent_space(point, &grad_tangent),
\* and minimize's `?` on what it returns
GradProject ==
  /\ pc = "grad_loop"
  /\ gi >= Len(point)
  /\ trace' = Append(trace, "project_to_tangent_space")
  /\ LET r == project_to_tangent_space(manifold, point, gradient)
     IN /\ last_ret' = r
        /\ IF IsOk(r)
           THEN /\ grad_tangent' = r.val
                /\ pc' = "direction"
                /\ UNCHANGED result
           ELSE /\ Return(r)
                /\ UNCHANGED grad_tangent
  /\ UNCHANGED <<inputs, point, prev_cost, current_cost, iter, f0, gi, gradient,
                 descent_direction, visited, call>>

\* let descent_direction = gradient * (-self.learning_rate)
DescentDirection ==
  /\ pc = "direction"
  /\ descent_direction' = TangentScale(grad_tangent, -learning_rate)
  /\ pc' = "exp"
  /\ UNCHANGED <<inputs, point, prev_cost, current_cost, iter, f0, gi, gradient,
                 grad_tangent, result, trace, visited, last_ret, call>>

\* ExpMove with the error swallowed: the step is skipped and the loop goes on
ExpMove_Swallows ==
  /\ pc = "exp"
  /\ trace' = Append(trace, "exp")
  /\ LET r == exp(manifold, point, descent_direction)
     IN /\ last_ret' = r
        /\ IF IsOk(r)
           THEN point' = r.val /\ visited' = Append(visited, r.val)
           ELSE UNCHANGED <<point, visited>>
  /\ pc' = "cost"
  /\ UNCHANGED <<inputs, prev_cost, current_cost, iter, f0, gi, gradient,
                 grad_tangent, descent_direction, result, call>>

\* ExpMove writing the new point through to the caller's slice as well, as
\* an optimizer that updates its argument in place would
ExpMove_InPlace ==
  /\ pc = "exp"
  /\ trace' = Append(trace, "exp")
  /\ LET r == exp(manifold, point, descent_direction)
     IN /\ last_ret' = r
        /\ IF IsOk(r)
           THEN /\ point' = r.val
                /\ initial_point' = r.val
                /\ visited' = Append(visited, r.val)
                /\ pc' = "cost"
                /\ UNCHANGED result
           ELSE /\ Return(r)
                /\ UNCHANGED <<point, visited, initial_point>>
  /\ UNCHANGED <<manifold, cost_function, learning_rate, max_iterations,
                 tolerance, prev_cost, current_cost, iter, f0, gi, gradient,
                 grad_tangent, descent_direction, call>>

\* point = manifold.exp(&point, &descent_direction)?
ExpMove ==
  /\ pc = "exp"
  /\ trace' = Append(trace, "exp")
  /\ LET r == exp(manifold, point, descent_direction)
     IN /\ last_ret' = r
        /\ IF IsOk(r)
           THEN /\ point' = r.val
                /\ visited' = Append(visited, r.val)
                /\ pc' = "cost"
                /\ UNCHANGED result
           ELSE /\ Return(r)
                /\ UNCHANGED <<point, visited>>
  /\ UNCHANGED <<inputs, prev_cost, current_cost, iter, f0, gi, gradient,
                 grad_tangent, descent_direction, call>>

\* let current_cost = cost_function(&point)
CurrentCost ==
  /\ pc = "cost"
  /\ current_cost' = Cost(cost_function, point)
  /\ trace' = Append(trace, "cost")
  /\ pc' = "test"
  /\ UNCHANGED <<inputs, point, prev_cost, iter, f0, gi, gradient, grad_tangent,
                 descent_direction, result, visited, last_ret, call>>

\* ConvergenceTest without `prev_cost = current_cost`
ConvergenceTest_StalePrevCost ==
  /\ pc = "test"
  /\ IF Abs(prev_cost - current_cost) < tolerance
     THEN /\ pc' = "return"
          /\ UNCHANGED iter
     ELSE /\ iter' = iter + 1
          /\ pc' = "loop"
  /\ UNCHANGED <<inputs, point, prev_cost, current_cost, f0, gi, gradient,
                 grad_tangent, descent_direction, result, trace, visited, last_ret,
                 call>>

\* ConvergenceTest with the comparison inverted: it stops while the cost
\* still changes
ConvergenceTest_Inverted ==
  /\ pc = "test"
  /\ IF Abs(prev_cost - current_cost) >= tolerance
     THEN /\ pc' = "return"
          /\ UNCHANGED <<prev_cost, iter>>
     ELSE /\ prev_cost' = current_cost
          /\ iter' = iter + 1
          /\ pc' = "loop"
  /\ UNCHANGED <<inputs, point, current_cost, f0, gi, gradient, grad_tangent,
                 descent_direction, result, trace, visited, last_ret, call>>

\* if (prev_cost - current_cost).abs() < self.tolerance { break; }
\* prev_cost = current_cost;   and the loop's increment
ConvergenceTest ==
  /\ pc = "test"
  /\ IF Abs(prev_cost - current_cost) < tolerance
     THEN /\ pc' = "return"
          /\ UNCHANGED <<prev_cost, iter>>
     ELSE /\ prev_cost' = current_cost
          /\ iter' = iter + 1
          /\ pc' = "loop"
  /\ UNCHANGED <<inputs, point, current_cost, f0, gi, gradient, grad_tangent,
                 descent_direction, result, trace, visited, last_ret, call>>

\* ReturnOk raising ConvergenceError when the iteration budget is exhausted
ReturnOk_ConvergenceError ==
  /\ pc = "return"
  /\ IF iter = max_iterations
     THEN Return(Err(ConvergenceError(iter)))
     ELSE Return(Ok(point))
  /\ UNCHANGED <<inputs, point, prev_cost, current_cost, iter, f0, gi, gradient,
                 grad_tangent, descent_direction, trace, visited, last_ret, call>>

\* Ok(point)
ReturnOk ==
  /\ pc = "return"
  /\ Return(Ok(point))
  /\ UNCHANGED <<inputs, point, prev_cost, current_cost, iter, f0, gi, gradient,
                 grad_tangent, descent_direction, trace, visited, last_ret, call>>

Next ==
  \/ CheckInitialPoint
  \/ InitialCost
  \/ LoopHead
  \/ GradCheckPoint
  \/ GradBaseCost
  \/ GradCoordinate
  \/ GradProject
  \/ DescentDirection
  \/ ExpMove
  \/ CurrentCost
  \/ ConvergenceTest
  \/ ReturnOk

Spec == Init /\ [][Next]_vars

\* where minimize is in its code: the statement, and the index of the
\* gradient's coordinate loop
position == <<pc, gi>>

ProgramPoints ==
  {"start", "init", "loop", "grad_check", "grad_f0", "grad_loop", "direction",
   "exp", "cost", "test", "return", "done"}

\* minimize moves on. Every action of Next changes the position, and one of
\* them is enabled wherever minimize has not returned, so the steps
\* <<Advance>>_position are the steps of Next and are enabled where Next is.
Advance ==
  /\ pc # "done"
  /\ pc' \in ProgramPoints
  /\ gi' \in 0..Len(point)

\* minimize is sequential code on one thread and makes no blocking call: while
\* it has not returned, its next step is taken
FairSpec == Spec /\ WF_position(Advance)

\* --------------------------------------------------- two calls in a row
\* minimize takes &self, &M and &[f64] and owns its locals: a caller may call
\* it again with the same optimizer, manifold, point and cost function.
\* MinimizeAgain is that second call; `call` keeps what the first returned.
MinimizeAgain ==
  /\ pc = "done"
  /\ call = NoCall
  /\ call' = [op |-> "minimize", result |-> result]
  /\ pc' = "start"
  /\ point' = <<>>
  /\ prev_cost' = 0
  /\ current_cost' = 0
  /\ iter' = 0
  /\ f0' = 0
  /\ gi' = 0
  /\ gradient' = <<>>
  /\ grad_tangent' = <<>>
  /\ descent_direction' = <<>>
  /\ result' = NoResult
  /\ trace' = <<>>
  /\ visited' = <<>>
  /\ last_ret' = NoResult
  /\ UNCHANGED inputs

TwiceNext ==
  \/ Next
  \/ MinimizeAgain

TwiceSpec == Init /\ [][TwiceNext]_vars

\* ------------------------------------------------------ any configuration
\* GradientDescent::new as a step of its own, given configurations a caller
\* should not give: a learning rate and a tolerance that are negative or zero.

ConfigLearningRates == {-(One \div 10), 0, One \div 10}

ConfigTolerances == {-One, 0, One \div 200}

\* before the optimizer is constructed; minimize's other arguments are chosen
ConfigInit ==
  /\ manifold \in Manifolds
  /\ initial_point \in InitialPoints(manifold)
  /\ cost_function \in CostFunctions(manifold)
  /\ learning_rate = 0
  /\ max_iterations = 0
  /\ tolerance = 0
  /\ pc = "new"
  /\ point = <<>>
  /\ prev_cost = 0
  /\ current_cost = 0
  /\ iter = 0
  /\ f0 = 0
  /\ gi = 0
  /\ gradient = <<>>
  /\ grad_tangent = <<>>
  /\ descent_direction = <<>>
  /\ result = NoResult
  /\ trace = <<>>
  /\ visited = <<>>
  /\ last_ret = NoResult
  /\ call = NoCall

\* New refusing a tolerance that is not positive
New_Validates ==
  /\ pc = "new"
  /\ \E lr \in ConfigLearningRates : \E n \in 0..MaxIter : \E tol \in ConfigTolerances :
       /\ learning_rate' = lr
       /\ max_iterations' = n
       /\ tolerance' = tol
       /\ IF tol <= 0
          THEN Return(Err(InvalidParameter("tolerance must be positive")))
          ELSE pc' = "start" /\ UNCHANGED result
  /\ UNCHANGED <<manifold, initial_point, cost_function, point, prev_cost,
                 current_cost, iter, f0, gi, gradient, grad_tangent,
                 descent_direction, trace, visited, last_ret, call>>

\* Self { learning_rate, max_iterations, tolerance }
New ==
  /\ pc = "new"
  /\ \E lr \in ConfigLearningRates : \E n \in 0..MaxIter : \E tol \in ConfigTolerances :
       /\ learning_rate' = lr
       /\ max_iterations' = n
       /\ tolerance' = tol
  /\ pc' = "start"
  /\ UNCHANGED <<manifold, initial_point, cost_function, point, prev_cost,
                 current_cost, iter, f0, gi, gradient, grad_tangent,
                 descent_direction, result, trace, visited, last_ret, call>>

ConfigNext ==
  \/ New
  \/ Next

ConfigSpec == ConfigInit /\ [][ConfigNext]_vars

\* ------------------------------------------------- the quadratic test
\* test_gradient_descent_quadratic: GradientDescent::new(0.1, 1000, 1e-6) on
\* Euclidean(2), from [5, 5], cost (x - 1)^2 + (y - 2)^2.  The tolerance 1e-6
\* is below the grid's resolution and is taken as the smallest positive grid
\* value, and the gradient's step is GradEps: both are coarser than the
\* source's, so the model stops no later and no nearer to the minimum than
\* the source does.

QuadraticMaxIter == 1000

QuadraticTolerance == 1

\* assert_relative_eq!(result[i], .., epsilon = 1e-2)
QuadraticAccuracy == 100

QuadraticInit ==
  /\ manifold = Euclidean(2)
  /\ initial_point = <<5 * One, 5 * One>>
  /\ cost_function = SqDist(<<One, 2 * One>>)
  /\ learning_rate = One \div 10
  /\ max_iterations = QuadraticMaxIter
  /\ tolerance = QuadraticTolerance
  /\ pc = "start"
  /\ point = <<>>
  /\ prev_cost = 0
  /\ current_cost = 0
  /\ iter = 0
  /\ f0 = 0
  /\ gi = 0
  /\ gradient = <<>>
  /\ grad_tangent = <<>>
  /\ descent_direction = <<>>
  /\ result = NoResult
  /\ trace = <<>>
  /\ visited = <<>>
  /\ last_ret = NoResult
  /\ call = NoCall

QuadraticSpec == QuadraticInit /\ [][Next]_vars /\ WF_position(Advance)

\* ------------------------------------------- single manifold operations
\* The operations of the trait are also public functions that any caller may
\* apply to any slice and any TangentVector.  OpsSpec applies one operation at
\* a time to arguments drawn from the sets below.

\* points handed to an operation: members, members at the tolerance's edge,
\* non-members and slices of the wrong length
OpPoints(M) ==
  CASE M.kind = "Euclidean" -> {<<One, 2 * One>>, <<0, 0>>, <<One>>}
    [] M.kind = "Sphere" ->
         {<<One, 0, 0>>, <<0, One, 0>>, <<-One, 0, 0>>, <<One + 10, 0, 0>>,
          <<One - 1, 0, 0>>, <<1 - One, 0, 0>>,
          <<5000, 5000, 5000>>, <<0, 0, 0>>, <<One, 0>>, <<One, One>>}
    [] M.kind = "SPD" ->
         {<<One, 0, 0, One>>, <<12000, 2000, 2000, 12000>>,
          <<One, 5000, 3000, One>>, <<One, 2 * One, 2 * One, One>>,
          <<One, 5000, 3 * One, One>>, <<One, One, One, One>>, <<One>>}

\* tangent vectors handed to an operation: tangent at some point above,
\* tangent within the tolerance only, not tangent, long, and of the wrong length
OpTangents(M) ==
  CASE M.kind = "Euclidean" -> {<<5000, 5000>>, <<0, 0>>, <<One>>, <<One, 0, 0>>}
    [] M.kind = "Sphere" ->
         {<<0, 5000, 0>>, <<0, 0, 0>>, <<0, 0, 25000>>, <<Tol, 5000, 0>>,
          <<One, 0, 0>>, <<0, One>>, <<0, One, 0, 0>>, <<8 * One, One, 0>>}
    [] M.kind = "SPD" ->
         {<<1000, 0, 0, 1000>>, <<0, 0, 0, 0>>, <<1000, 500, 500, -1000>>,
          <<-8 * One, 0, 0, -8 * One>>, <<One, 5000, 0, One>>, <<One>>,
          <<7200, 0, 0, 7200>>}

\* the parameter t of geodesic
OpParams == {0, One \div 2, One}

\* the operations are pure: each behaviour applies one of them, once
Called(name, M, p, q, v, w, t, r) ==
  /\ call = NoCall
  /\ call' = [op |-> name, M |-> M, point |-> p, other |-> q, tangent |-> v,
              tangent2 |-> w, t |-> t, result |-> r]

CallCheckPoint ==
  \E M \in Manifolds : \E p \in OpPoints(M) :
    /\ Called("check_point", M, p, <<>>, <<>>, <<>>, 0, check_point(M, p))
    /\ UNCHANGED optVars

CallCheckTangentVector ==
  \E M \in Manifolds : \E p \in OpPoints(M) : \E v \in OpTangents(M) :
    /\ Called("check_tangent_vector", M, p, <<>>, v, <<>>, 0,
              check_tangent_vector(M, p, v))
    /\ UNCHANGED optVars

CallProjectToManifold ==
  \E M \in Manifolds : \E p \in OpPoints(M) :
    /\ Called("project_to_manifold", M, p, <<>>, <<>>, <<>>, 0,
              project_to_manifold(M, p))
    /\ UNCHANGED optVars

CallProjectToTangentSpace ==
  \E M \in Manifolds : \E p \in OpPoints(M) : \E v \in OpTangents(M) :
    /\ Called("project_to_tangent_space", M, p, <<>>, v, <<>>, 0,
              project_to_tangent_space(M, p, v))
    /\ UNCHANGED optVars

CallExp ==
  \E M \in Manifolds : \E p \in OpPoints(M) : \E v \in OpTangents(M) :
    /\ Called("exp", M, p, <<>>, v, <<>>, 0, exp(M, p, v))
    /\ UNCHANGED optVars

CallLog ==
  \E M \in Manifolds : \E p \in OpPoints(M) : \E q \in OpPoints(M) :
    /\ Called("log", M, p, q, <<>>, <<>>, 0, log(M, p, q))
    /\ UNCHANGED optVars

CallInnerProduct ==
  \E M \in Manifolds : \E p \in OpPoints(M) :
    \E v \in OpTangents(M) : \E w \in OpTangents(M) :
      /\ Called("inner_product", M, p, <<>>, v, w, 0, inner_product(M, p, v, w))
      /\ UNCHANGED optVars

CallNorm ==
  \E M \in Manifolds : \E p \in OpPoints(M) : \E v \in OpTangents(M) :
    /\ Called("norm", M, p, <<>>, v, <<>>, 0, norm(M, p, v))
    /\ UNCHANGED optVars

CallRetraction ==
  \E M \in Manifolds : \E p \in OpPoints(M) : \E v \in OpTangents(M) :
    /\ Called("retraction", M, p, <<>>, v, <<>>, 0, retraction(M, p, v))
    /\ UNCHANGED optVars

CallDistance ==
  \E M \in Manifolds : \E p \in OpPoints(M) : \E q \in OpPoints(M) :
    /\ Called("distance", M, p, q, <<>>, <<>>, 0, distance(M, p, q))
    /\ UNCHANGED optVars

CallGeodesic ==
  \E M \in Manifolds : \E p \in OpPoints(M) : \E v \in OpTangents(M) :
    \E t \in OpParams :
      /\ Called("geodesic", M, p, <<>>, v, <<>>, t, geodesic(M, p, v, t))
      /\ UNCHANGED optVars

CallParallelTransport ==
  \E M \in Manifolds : \E p \in OpPoints(M) :
    \E v \in OpTangents(M) : \E w \in OpTangents(M) :
      /\ Called("parallel_transport", M, p, <<>>, v, w, 0,
                parallel_transport(M, p, v, w))
      /\ UNCHANGED optVars

\* let q = manifold.exp(p, v)?; manifold.log(p, &q)   (the round trip of the
\* tests test_sphere_exp_log and test_spd_exp_log); `other` records q
CallLogExp ==
  \E M \in Manifolds : \E p \in OpPoints(M) : \E v \in OpTangents(M) :
    LET q == exp(M, p, v)
    IN /\ Called("log_exp", M, p, q.val, v, <<>>, 0,
                 IF IsOk(q) THEN log(M, p, q.val) ELSE q)
       /\ UNCHANGED optVars

\* no minimize is running while single operations are applied
OpsInit ==
  /\ manifold = Euclidean(2)
  /\ initial_point = <<>>
  /\ cost_function = Const(0)
  /\ learning_rate = 0
  /\ max_iterations = 0
  /\ tolerance = 0
  /\ pc = "idle"
  /\ point = <<>>
  /\ prev_cost = 0
  /\ current_cost = 0
  /\ iter = 0
  /\ f0 = 0
  /\ gi = 0
  /\ gradient = <<>>
  /\ grad_tangent = <<>>
  /\ descent_direction = <<>>
  /\ result = NoResult
  /\ trace = <<>>
  /\ visited = <<>>
  /\ last_ret = NoResult
  /\ call = NoCall

OpsNext ==
  \/ CallCheckPoint
  \/ CallCheckTangentVector
  \/ CallProjectToManifold
  \/ CallProjectToTangentSpace
  \/ CallExp
  \/ CallLog
  \/ CallInnerProduct
  \/ CallNorm
  \/ CallRetraction
  \/ CallDistance
  \/ CallGeodesic
  \/ CallParallelTransport
  \/ CallLogExp

OpsSpec == OpsInit /\ [][OpsNext]_vars

\* ------------------------------------------------- dimensions and lengths
\* dim and the length test of check_point, on manifolds of every dimension up
\* to MaxDim and on slices of every length up to MaxLen

MaxDim == 3
MaxLen == 10

DimManifolds ==
  UNION {{Euclidean(n), Sphere(n), SPD(n)} : n \in 1..MaxDim}

\* [1, 0, .., 0] of length n
UnitSlice(n) == Vec([i \in 1..n |-> IF i = 1 THEN One ELSE 0])

\* the n x n identity matrix, flattened
IdentitySlice(n) ==
  Vec([k \in 1..(n * n) |-> IF (k - 1) \div n = (k - 1) % n THEN One ELSE 0])

LenPoints ==
  {Zeros(n) : n \in 0..MaxLen} \cup {UnitSlice(n) : n \in 1..MaxLen}
     \cup {IdentitySlice(n) : n \in 1..MaxDim}

CallDim ==
  \E M \in DimManifolds :
    /\ Called("dim", M, <<>>, <<>>, <<>>, <<>>, 0, dim(M))
    /\ UNCHANGED optVars

CallCheckPointLen ==
  \E M \in DimManifolds : \E p \in LenPoints :
    /\ Called("check_point", M, p, <<>>, <<>>, <<>>, 0, check_point(M, p))
    /\ UNCHANGED optVars

DimNext ==
  \/ CallDim
  \/ CallCheckPointLen

DimSpec == OpsInit /\ [][DimNext]_vars

\* ------------------------------------------------------- the SPD series
\* matrix_exponential and matrix_logarithm one loop iteration at a time.  call
\* holds the function's locals: k is the loop variable, st the term and the
\* partial sum the iterations before left, returned whether it has returned.

SeriesNames == {"matrix_exponential", "matrix_logarithm"}

Diag(a, b) == << <<a, 0>>, <<0, b>> >>

\* arguments of matrix_exponential: zero, small, of moderate size and so large
\* that nineteen terms do not reach the threshold
ExpInputs ==
  {Diag(0, 0), Diag(1000, 1000), Diag(One, One), Diag(3 * One, One),
   Diag(-8 * One, -8 * One), << <<1000, 500>>, <<500, -1000>> >>}

\* arguments of matrix_logarithm: the identity, near it, and at distance 1
\* from it, where the series does not converge
LogInputs ==
  {Diag(One, One), Diag(11000, 11000), Diag(2800, One), Diag(2 * One, 2 * One),
   Diag(2 * One, One), << <<12000, 2000>>, <<2000, 12000>> >>}

SeriesCap(name) == IF name = "matrix_exponential" THEN ExpCap ELSE LogCap

\* the call: the statements before the loop
CallSeries ==
  /\ call = NoCall
  /\ \/ \E mat \in ExpInputs :
          call' = [op |-> "matrix_exponential", mat |-> mat, k |-> 1,
                   st |-> [term |-> Identity(Len(mat)),
                           result |-> Identity(Len(mat)), stop |-> FALSE],
                   returned |-> FALSE, result |-> NoResult]
     \/ \E mat \in LogInputs :
          call' = [op |-> "matrix_logarithm", mat |-> mat, k |-> 1,
                   st |-> [term |-> MatSub(mat, Identity(Len(mat))),
                           result |-> ZeroMatrix(Len(mat)), stop |-> FALSE],
                   returned |-> FALSE, result |-> NoResult]
  /\ UNCHANGED optVars

\* for k in 1..20 { term = &term * mat / k; result += &term; if .. { break } }
ExpIterate ==
  /\ call.op = "matrix_exponential"
  /\ ~call.returned
  /\ call.k < ExpCap
  /\ ~call.st.stop
  /\ call' = [call EXCEPT !.k = @ + 1, !.st = ExpStep(call.mat, call.k, call.st)]
  /\ UNCHANGED optVars

\* result
ExpReturn ==
  /\ call.op = "matrix_exponential"
  /\ ~call.returned
  /\ call.k >= ExpCap \/ call.st.stop
  /\ call' = [call EXCEPT !.returned = TRUE, !.result = Ok(call.st.result)]
  /\ UNCHANGED optVars

\* for k in 1..50 { result += &term * (sign / k); term = &term * &a; if .. { break } }
LogIterate ==
  /\ call.op = "matrix_logarithm"
  /\ ~call.returned
  /\ call.k < LogCap
  /\ ~call.st.stop
  /\ call' = [call EXCEPT !.k = @ + 1,
                          !.st = LogStep(MatSub(call.mat, Identity(Len(call.mat))),
                                         call.k, call.st)]
  /\ UNCHANGED optVars

\* matrix_logarithm failing when the cap is reached before the terms are small
LogReturn_FailsAtCap ==
  /\ call.op = "matrix_logarithm"
  /\ ~call.returned
  /\ call.k >= LogCap \/ call.st.stop
  /\ call' = [call EXCEPT !.returned = TRUE,
                          !.result = IF call.st.stop THEN Ok(call.st.result)
                                     ELSE Err(NumericalError("series did not converge"))]
  /\ UNCHANGED optVars

\* Ok(result)
LogReturn ==
  /\ call.op = "matrix_logarithm"
  /\ ~call.returned
  /\ call.k >= LogCap \/ call.st.stop
  /\ call' = [call EXCEPT !.returned = TRUE, !.result = Ok(call.st.result)]
  /\ UNCHANGED optVars

SeriesNext ==
  \/ CallSeries
  \/ ExpIterate
  \/ ExpReturn
  \/ LogIterate
  \/ LogReturn

\* a call that has started runs on: nothing in the loops waits
SeriesSpec == OpsInit /\ [][SeriesNext]_vars /\ WF_vars(SeriesNext)

\* -------------------------------------------- finite_difference_gradient
\* One call of finite_difference_gradient, statement by statement.  call holds
\* the arguments and the locals; evals lists the points the cost function was
\* evaluated at and trace the calls made, in order.

\* the epsilon of the unit test and a coarser one
Epsilons == {GradEps, One \div 10}

CallFiniteDifference ==
  /\ call = NoCall
  /\ \E M \in Manifolds : \E p \in OpPoints(M) : \E d \in OpTangents(M) :
       \E f \in CostFunctions(M) : \E e \in Epsilons :
         call' = [op |-> "finite_difference_gradient", M |-> M, point |-> p,
                  direction |-> d, cost_function |-> f, epsilon |-> e,
                  pc |-> "check", trace |-> <<>>, evals |-> <<>>,
                  point_plus |-> <<>>, f0 |-> 0, f_plus |-> 0,
                  result |-> NoResult]
  /\ UNCHANGED optVars

InFiniteDifference == call.op = "finite_difference_gradient"

\* FdCheck with the base cost evaluated before the arguments are validated
FdCheck_EvaluatesFirst ==
  /\ InFiniteDifference
  /\ call.pc = "check"
  /\ LET c == check_tangent_vector(call.M, call.point, call.direction)
     IN call' = [call EXCEPT
                   !.trace = @ \o <<"cost", "check_tangent_vector">>,
                   !.evals = Append(@, call.point),
                   !.pc = IF IsOk(c) THEN "exp" ELSE "done",
                   !.result = IF IsOk(c) THEN @ ELSE c]
  /\ UNCHANGED optVars

\* manifold.check_tangent_vector(point, direction)?
FdCheck ==
  /\ InFiniteDifference
  /\ call.pc = "check"
  /\ LET c == check_tangent_vector(call.M, call.point, call.direction)
     IN call' = [call EXCEPT
                   !.trace = Append(@, "check_tangent_vector"),
                   !.pc = IF IsOk(c) THEN "exp" ELSE "done",
                   !.result = IF IsOk(c) THEN @ ELSE c]
  /\ UNCHANGED optVars

\* let scaled_direction = direction.clone() * epsilon;
\* let point_plus = manifold.exp(point, &scaled_direction)?
FdExp ==
  /\ InFiniteDifference
  /\ call.pc = "exp"
  /\ LET scaled_direction == TangentScale(call.direction, call.epsilon)
         r == exp(call.M, call.point, scaled_direction)
     IN call' = [call EXCEPT
                   !.trace = Append(@, "exp"),
                   !.point_plus = IF IsOk(r) THEN r.val ELSE @,
                   !.pc = IF IsOk(r) THEN "f0" ELSE "done",
                   !.result = IF IsOk(r) THEN @ ELSE r]
  /\ UNCHANGED optVars

\* let f0 = cost_function(point)
FdBaseCost ==
  /\ InFiniteDifference
  /\ call.pc = "f0"
  /\ call' = [call EXCEPT
                !.trace = Append(@, "cost"),
                !.evals = Append(@, call.point),
                !.f0 = Cost(call.cost_function, call.point),
                !.pc = "f_plus"]
  /\ UNCHANGED optVars

\* let f_plus = cost_function(&point_plus)
FdMovedCost ==
  /\ InFiniteDifference
  /\ call.pc = "f_plus"
  /\ call' = [call EXCEPT
                !.trace = Append(@, "cost"),
                !.evals = Append(@, call.point_plus),
                !.f_plus = Cost(call.cost_function, call.point_plus),
                !.pc = "return"]
  /\ UNCHANGED optVars

\* Ok((f_plus - f0) / epsilon)
FdReturn ==
  /\ InFiniteDifference
  /\ call.pc = "return"
  /\ call' = [call EXCEPT
                !.result = Ok(FDiv(call.f_plus - call.f0, call.epsilon)),
                !.pc = "done"]
  /\ UNCHANGED optVars

FdNext ==
  \/ CallFiniteDifference
  \/ FdCheck
  \/ FdExp
  \/ FdBaseCost
  \/ FdMovedCost
  \/ FdReturn

FdSpec == OpsInit /\ [][FdNext]_vars

\* ------------------------------------------------------------------- claims

\* the number of calls of `name` made so far
Count(name) == Cardinality({i \in 1..Len(trace) : trace[i] = name})

LastCall == IF trace = <<>> THEN "none" ELSE trace[Len(trace)]

InitialPointValid == IsOk(check_point(manifold, initial_point))

\* the cost at the k-th visited point
CostAt(k) == Cost(cost_function, visited[k])

\* the convergence test of iteration k, which moved from visited[k] to visited[k + 1]
SmallChange(k) == Abs(CostAt(k) - CostAt(k + 1)) < tolerance

\* C1: minimize validates the initial point before anything else; when the
\* check fails it returns the check's DimensionMismatch or PointNotOnManifold,
\* and the cost function, the gradient and exp are never called.
C1_InitialPointCheckedFirst ==
  /\ trace # <<>> => trace[1] = "check_point"
  /\ ~InitialPointValid =>
       /\ trace \in {<<>>, <<"check_point">>}
       /\ pc \in {"start", "done"}
       /\ pc = "done" =>
            /\ result = check_point(manifold, initial_point)
            /\ result.kind = "Err"
            /\ result.err.tag \in {"DimensionMismatch", "PointNotOnManifold"}

C1_Witness ==
  /\ pc = "done"
  /\ result.kind = "Err"
  /\ result.err.tag = "PointNotOnManifold"
  /\ trace = <<"check_point">>

\* C2: minimize terminates: it begins at most max_iterations iterations, each
\* one numerical_gradient call, then at most one exp call and one cost
\* evaluation, and then returns Ok or Err.
C2_Terminates ==
  /\ [](/\ iter <= max_iterations
        /\ Count("numerical_gradient") <= max_iterations
        /\ Count("exp") <= Count("numerical_gradient")
        /\ Count("exp") >= Count("numerical_gradient") - 1
        /\ pc = "done" => result.kind \in {"Ok", "Err"})
  /\ <>(pc = "done")

C2_Witness ==
  /\ pc = "done"
  /\ result.kind = "Ok"
  /\ max_iterations = MaxIter
  /\ Count("numerical_gradient") = max_iterations

\* C3: when every one of the max_iterations iterations ran, without the
\* tolerance test firing and without an error, minimize returns Ok with the
\* point the last exp produced (the initial point when max_iterations is 0);
\* minimize never returns ConvergenceError.
C3_ExhaustionReturnsLastPoint ==
  /\ result.err.tag # "ConvergenceError"
  /\ (pc = "done" /\ iter = max_iterations /\ InitialPointValid) =>
       /\ Len(visited) = max_iterations + 1
       /\ visited[1] = initial_point
       /\ result = Ok(visited[Len(visited)])

C3_Witness ==
  /\ pc = "done"
  /\ result.kind = "Ok"
  /\ max_iterations >= 2
  /\ iter = max_iterations
  /\ result.val # initial_point

\* C4: every iteration compares the cost at the new point with the cost at the
\* point before it (the initial point in the first iteration); at the first
\* iteration where the difference is below the tolerance minimize stops and
\* returns Ok with the new point; otherwise the new cost becomes prev_cost and
\* the next iteration starts from the new point.
C4_StopsAtFirstSmallChange ==
  LET n == Len(visited)
  IN /\ \A k \in 1..(n - 2) : ~SmallChange(k)
     /\ pc = "test" => prev_cost = CostAt(n - 1) /\ current_cost = CostAt(n)
     /\ (n >= 1 /\ pc \notin {"cost", "test"}) =>
          IF n >= 2 /\ SmallChange(n - 1)
          THEN /\ pc \in {"return", "done"}
               /\ iter = n - 2
               /\ pc = "done" => result = Ok(visited[n])
          ELSE /\ prev_cost = CostAt(n)
               /\ point = visited[n]
               /\ iter = n - 1

C4_Witness ==
  /\ pc = "done"
  /\ result.kind = "Ok"
  /\ Len(visited) = 3
  /\ max_iterations = 3
  /\ SmallChange(2)
  /\ CostAt(1) # CostAt(3)
  /\ Abs(CostAt(1) - CostAt(3)) >= tolerance

\* C5: when numerical_gradient or exp returns an error in an iteration,
\* minimize returns that error unchanged and no point, and calls nothing more.
C5_ErrorsPropagateUnchanged ==
  (last_ret.kind \notin {"none", "Ok"} /\ Count("numerical_gradient") > 0) =>
     /\ pc = "done"
     /\ result = last_ret
     /\ result.val = <<>>
     /\ LastCall \in {"check_point", "project_to_tangent_space", "exp"}
     /\ LastCall = "exp" => result = exp(manifold, point, descent_direction)
     /\ LastCall = "check_point" => result = check_point(manifold, point)

C5_Witness ==
  /\ pc = "done"
  /\ result.kind = "Err"
  /\ LastCall = "exp"

\* C6: every completed iteration evaluates the cost n + 1 times in the
\* gradient and once at the new point, n the length of the point; with the
\* evaluation at the initial point a run that returns Ok after k iterations
\* has evaluated the cost 1 + k * (n + 2) times.
C6_CostEvaluations ==
  LET n == Len(initial_point)
      k == Len(visited) - 1
  IN /\ (pc = "done" /\ result.kind = "Ok") => Count("cost") = 1 + k * (n + 2)
     /\ pc = "test" => Count("cost") = 1 + k * (n + 2)
     /\ pc = "direction" => Count("cost") = 1 + k * (n + 2) + (n + 1)

C6_Witness ==
  /\ pc = "done"
  /\ result.kind = "Ok"
  /\ Len(visited) = 4
  /\ Len(initial_point) = 4

\* the operations of the claim that take a tangent vector at the point
TangentOps ==
  {"exp", "inner_product", "norm", "retraction", "geodesic", "parallel_transport"}

\* the operations of the claim that take a second point
TwoPointOps == {"log", "distance"}

ValidatedOps ==
  {"project_to_manifold", "project_to_tangent_space"} \cup TangentOps \cup TwoPointOps

\* the input of the call fails the validation the operation's arguments have
InvalidInput ==
  \/ ~IsOk(check_point(call.M, call.point))
  \/ call.op \in TwoPointOps /\ ~IsOk(check_point(call.M, call.other))
  \/ call.op \in TangentOps
       /\ ~IsOk(check_tangent_vector(call.M, call.point, call.tangent))
  \/ call.op \in {"inner_product", "parallel_transport"}
       /\ ~IsOk(check_tangent_vector(call.M, call.point, call.tangent2))

\* C7: on Euclidean, Sphere and SPD every operation that receives a point or a
\* tangent vector validates it first: called with an invalid input it fails
\* with DimensionMismatch, PointNotOnManifold or InvalidTangentVector.
C7_ValidatesFirst ==
  (call.op \in ValidatedOps /\ InvalidInput) =>
     /\ call.result.kind = "Err"
     /\ call.result.err.tag \in
          {"DimensionMismatch", "PointNotOnManifold", "InvalidTangentVector"}

\* C8: every fallible operation, called with a point or tangent vector of any
\* length and content, returns Ok with a value or Err with one ManifoldError
\* variant; no input makes it abort.
C8_NoAbort ==
  call.op # "none" =>
     /\ call.result.kind \in {"Ok", "Err"}
     /\ call.result.kind = "Ok" => call.result.err = NoError
     /\ call.result.kind = "Err" => call.result.err.tag \in ManifoldErrorTags

\* C9: every point minimize returns as Ok satisfies check_point, and at the
\* start of every iteration the current point satisfies check_point.
C9_ReturnedPointOnManifold ==
  /\ (pc = "done" /\ result.kind = "Ok") => IsOk(check_point(manifold, result.val))
  /\ pc = "grad_check" => IsOk(check_point(manifold, point))

\* C10: for a point p that passes check_point and a tangent v that passes
\* check_tangent_vector(p, v), exp(p, v) returns a point that passes check_point.
C10_ExpStaysOnManifold ==
  (/\ call.op = "exp"
   /\ IsOk(check_point(call.M, call.point))
   /\ IsOk(check_tangent_vector(call.M, call.point, call.tangent))) =>
     /\ IsOk(call.result)
     /\ IsOk(check_point(call.M, call.result.val))

\* |a[i] - b[i]| <= eps for every component, a and b of one length
Within(a, b, eps) ==
  /\ Len(a) = Len(b)
  /\ \A i \in 1..Len(a) : Abs(a[i] - b[i]) <= eps

\* the tolerance of the round-trip tests (epsilon = 1e-6 in test_spd_exp_log)
RoundTripTol == 200

\* C11: for a valid point and a valid tangent at it, log(point, exp(point,
\* tangent)) recovers the tangent within the numerical tolerance, except at
\* sphere antipodes, where log fails with NumericalError.
C11_LogExpRoundTrip ==
  (/\ call.op = "log_exp"
   /\ IsOk(check_tangent_vector(call.M, call.point, call.tangent))) =>
     \/ /\ IsOk(call.result)
        /\ Within(call.result.val, call.tangent, RoundTripTol)
     \/ /\ call.M.kind = "Sphere"
        /\ call.result.kind = "Err"
        /\ call.result.err.tag = "NumericalError"

C13_ProjectionOnManifold ==
  (call.op = "project_to_manifold" /\ IsOk(call.result)) =>
     /\ IsOk(check_point(call.M, call.result.val))
     /\ call.M.kind = "SPD" =>
          is_symmetric(call.M, vec_to_matrix(call.M, call.result.val))

\* C14: for a point p that passes check_point and an ambient vector u of the
\* ambient length, project_to_tangent_space(p, u) returns a tangent w that
\* passes check_tangent_vector(p, w).
C14_ProjectionIsTangent ==
  (/\ call.op = "project_to_tangent_space"
   /\ IsOk(check_point(call.M, call.point))
   /\ Len(call.tangent) = Len(call.point)) =>
     /\ IsOk(call.result)
     /\ IsOk(check_tangent_vector(call.M, call.point, call.result.val))

\* the componentwise sum and difference of two sequences of one length
VecAdd(a, b) == Vec([i \in 1..Len(a) |-> a[i] + b[i]])

VecSub(a, b) == Vec([i \in 1..Len(a) |-> a[i] - b[i]])

RequiredLen(M) ==
  CASE M.kind = "Euclidean" -> M.dimension
    [] M.kind = "Sphere" -> M.dimension + 1
    [] M.kind = "SPD" -> M.dimension * M.dimension

\* C19: dim() is n for Euclidean(n) and Sphere(n) and n(n+1)/2 for SPD(n), 6
\* for n = 3; check_point accepts only slices of length n, n+1 and n*n and
\* answers any other length with DimensionMismatch{required, actual}.
C19_DimAndLength ==
  /\ call.op = "dim" =>
       /\ call.M.kind \in {"Euclidean", "Sphere"} => call.result = call.M.dimension
       /\ call.M.kind = "SPD" =>
            2 * call.result = call.M.dimension * (call.M.dimension + 1)
       /\ call.M = SPD(3) => call.result = 6
  /\ call.op = "check_point" =>
       /\ IsOk(call.result) => Len(call.point) = RequiredLen(call.M)
       /\ Len(call.point) # RequiredLen(call.M) =>
            call.result = Err(DimensionMismatch(RequiredLen(call.M), Len(call.point)))
       /\ Len(call.point) = RequiredLen(call.M) =>
            (IsOk(call.result) \/ call.result.err.tag = "PointNotOnManifold")

C19_Witness ==
  /\ call.op = "dim"
  /\ call.M = SPD(3)
  /\ call.result = 6

\* -p
VecNeg(a) == Vec([i \in 1..Len(a) |-> -a[i]])

\* C20: Sphere::log of two valid points returns the zero tangent vector of
\* length n+1 when the points are identical and NumericalError when they are
\* antipodal, and distance fails with that same NumericalError on antipodal
\* points.
C20_SphereLogBranches ==
  (/\ call.op \in {"log", "distance"}
   /\ call.M.kind = "Sphere"
   /\ IsOk(check_point(call.M, call.point))
   /\ IsOk(check_point(call.M, call.other)))
  => /\ (call.op = "log" /\ call.other = call.point) =>
          call.result = Ok(Zeros(call.M.dimension + 1))
     /\ call.other = VecNeg(call.point) =>
          call.result =
            Err(NumericalError("Points are antipodal, logarithm map is not unique"))

\* the series is running or has returned
InSeries == call.op \in SeriesNames

\* C21: both SPD series return: matrix_exponential after at most 19 term
\* updates and matrix_logarithm after at most 49; a series stops before its cap
\* only when every entry of the current term is below the threshold; whether
\* or not the cap was reached, what is returned is the partial sum, as a
\* success, and matrix_logarithm never returns an error.
C21_SeriesWithinCaps ==
  /\ <>(InSeries /\ call.returned)
  /\ [](InSeries =>
          /\ call.k - 1 <= SeriesCap(call.op) - 1
          /\ call.op = "matrix_exponential" => call.k - 1 <= 19
          /\ call.op = "matrix_logarithm" => call.k - 1 <= 49
          /\ call.st.stop => AllBelow(call.st.term, SeriesTol)
          /\ call.returned =>
               /\ call.k < SeriesCap(call.op) => AllBelow(call.st.term, SeriesTol)
               /\ call.result = Ok(call.st.result)
               /\ call.op = "matrix_exponential" =>
                    call.result.val = matrix_exponential(call.mat)
               /\ call.op = "matrix_logarithm" =>
                    call.result = matrix_logarithm(call.mat))

\* the cap is reached with a term that is not small, and the partial sum is
\* returned as a success
C21_Witness ==
  /\ call.op = "matrix_logarithm"
  /\ call.returned
  /\ call.k = LogCap
  /\ ~AllBelow(call.st.term, SeriesTol)
  /\ IsOk(call.result)

\* the calls made since numerical_gradient was last entered
GradCalls ==
  LET at == {i \in 1..Len(trace) : trace[i] = "numerical_gradient"}
      last == CHOOSE i \in at : \A j \in at : j <= i
  IN SubSeq(trace, last + 1, Len(trace))

\* check_point followed by k cost evaluations and nothing else
CheckThenCosts(k) == <<"check_point">> \o [i \in 1..k |-> "cost"]

\* (f(point + eps * e_i) - f(point)) / eps
ForwardDifference(i) ==
  FDiv(Cost(cost_function, [point EXCEPT ![i] = @ + GradEps])
         - Cost(cost_function, point), GradEps)

\* C22: numerical_gradient calls check_point before it evaluates the cost and
\* returns its error with no evaluation made; otherwise it evaluates the cost
\* once at point and once at each of the n points with one coordinate raised
\* by eps, never checking those points and never changing point, sets
\* component i to the forward difference, and returns what
\* project_to_tangent_space(point, that vector) returns, error included.
C22_NumericalGradient ==
  LET n == Len(point)
  IN /\ pc = "grad_f0" =>
          /\ GradCalls = CheckThenCosts(0)
          /\ IsOk(check_point(manifold, point))
     /\ pc = "grad_loop" =>
          /\ GradCalls = CheckThenCosts(1 + gi)
          /\ gi <= n
          /\ f0 = Cost(cost_function, point)
          /\ Len(gradient) = n
          /\ \A i \in 1..gi : gradient[i] = ForwardDifference(i)
          /\ point = visited[Len(visited)]
     /\ pc = "direction" =>
          /\ GradCalls = CheckThenCosts(1 + n) \o <<"project_to_tangent_space">>
          /\ \A i \in 1..n : gradient[i] = ForwardDifference(i)
          /\ Ok(grad_tangent) = project_to_tangent_space(manifold, point, gradient)
          /\ point = visited[Len(visited)]
     /\ (pc = "done" /\ Count("numerical_gradient") > 0 /\ ~IsOk(result)) =>
          /\ LastCall = "check_point" =>
               /\ GradCalls = CheckThenCosts(0)
               /\ result = check_point(manifold, point)
          /\ LastCall = "project_to_tangent_space" =>
               /\ GradCalls = CheckThenCosts(1 + n) \o <<"project_to_tangent_space">>
               /\ result = project_to_tangent_space(manifold, point, gradient)

\* a gradient of a point of length 4 was returned after check_point, five cost
\* evaluations and the projection
C22_Witness ==
  /\ pc = "direction"
  /\ Len(point) = 4
  /\ GradCalls = CheckThenCosts(5) \o <<"project_to_tangent_space">>
  /\ grad_tangent # gradient

OffManifold(M, p) ==
  /\ Len(p) = RequiredLen(M)
  /\ CASE M.kind = "Euclidean" -> FALSE
       [] M.kind = "Sphere" -> Abs(ZipDot(p, p) - One) > Tol
       [] M.kind = "SPD" ->
            \/ ~is_symmetric(M, vec_to_matrix(M, p))
            \/ ~is_positive_definite(M, vec_to_matrix(M, p))

\* C24: check_point reports a wrong length before membership, and on SPD the
\* missing symmetry before the missing definiteness; check_tangent_vector
\* reports the point's error first, then the tangent's wrong length, then
\* InvalidTangentVector; what is returned is Ok or one error.
C24_ValidationPrecedence ==
  /\ call.op = "check_point" =>
       /\ call.result.kind \in {"Ok", "Err"}
       /\ Len(call.point) # RequiredLen(call.M) =>
            call.result = Err(DimensionMismatch(RequiredLen(call.M), Len(call.point)))
       /\ OffManifold(call.M, call.point) =>
            call.result.err.tag = "PointNotOnManifold"
       /\ (/\ call.M.kind = "SPD"
           /\ Len(call.point) = RequiredLen(call.M)
           /\ ~is_symmetric(call.M, vec_to_matrix(call.M, call.point))) =>
            call.result = Err(PointNotOnManifold("Matrix is not symmetric"))
  /\ call.op = "check_tangent_vector" =>
       LET c == check_point(call.M, call.point)
       IN /\ call.result.kind \in {"Ok", "Err"}
          /\ ~IsOk(c) => call.result = c
          /\ (IsOk(c) /\ Len(call.tangent) # RequiredLen(call.M)) =>
               call.result =
                 Err(DimensionMismatch(RequiredLen(call.M), Len(call.tangent)))
          /\ (IsOk(c) /\ Len(call.tangent) = RequiredLen(call.M)) =>
               (IsOk(call.result) \/ call.result.err.tag = "InvalidTangentVector")

\* a matrix that is neither symmetric nor positive definite is reported as
\* not symmetric
C24_Witness ==
  /\ call.op = "check_point"
  /\ call.M.kind = "SPD"
  /\ Len(call.point) = 4
  /\ ~is_symmetric(call.M, vec_to_matrix(call.M, call.point))
  /\ ~is_positive_definite(call.M, vec_to_matrix(call.M, call.point))
  /\ call.result = Err(PointNotOnManifold("Matrix is not symmetric"))

\* C25: no configuration is refused: GradientDescent::new always yields an
\* optimizer, minimize never returns InvalidParameter, and with a tolerance
\* that is zero or negative the loop is never left early: a run that meets no
\* error makes exactly max_iterations iterations.
C25_NoConfigValidation ==
  /\ result.err.tag # "InvalidParameter"
  /\ pc = "done" => Count("check_point") > 0
  /\ (tolerance <= 0 /\ pc = "return") => iter = max_iterations
  /\ (tolerance <= 0 /\ pc = "done" /\ IsOk(result)) =>
       /\ iter = max_iterations
       /\ Count("exp") = max_iterations
       /\ Len(visited) = max_iterations + 1

\* the cost does not change at all, the tolerance is zero, and the loop still
\* runs to the end
C25_Witness ==
  /\ pc = "done"
  /\ IsOk(result)
  /\ tolerance = 0
  /\ learning_rate <= 0
  /\ max_iterations >= 2
  /\ iter = max_iterations
  /\ CostAt(1) = CostAt(2)

====
